---- MODULE Spec2Model ----
(***************************************************************************)
(* Model of the PHP binding generator (bindgen/src/gen_php/mod.rs): the    *)
(* naming filters, the FFI type mapper, the type oracle, the type          *)
(* renderer's include-once set and the write_bindings driver.              *)
(*                                                                         *)
(* A Rust String is modelled as a sequence of pieces.  An identifier is    *)
(* one piece per character; the literal fragments of the FFI type labels   *)
(* ("UInt64", "UnsafeMutablePointer<", ...) are one piece each.            *)
(***************************************************************************)
EXTENDS Integers, Sequences, FiniteSets, TLC

VARIABLES
    fn,                 \* the filter (or oracle method) a template calls
    arg,                \* its argument
    ret,                \* Pending, Ok(value) or Panic(message)
    include_once_names, \* TypeRenderer.include_once_names
    requested,          \* helper name -> number of requests made so far
    emitted,            \* helper name -> number of times the helper was emitted
    components,         \* the components handed to the binding generator
    updated,            \* update_component_configs has run
    wb_pc,              \* position inside write_bindings
    idx,                \* index of the component the write_bindings loop is at
    generated,          \* indices whose generate_bindings returned Ok
    files,              \* files written under out_dir
    wb_result           \* what write_bindings returned, or that it panicked

vars == <<fn, arg, ret, include_once_names, requested, emitted,
          components, updated, wb_pc, idx, generated, files, wb_result>>

----------------------------------------------------------------------------
(* Bounds *)

\* longest free-form identifier drawn as an input
MaxIdentLen == 3
\* deepest nesting of Optional / Sequence / Map in a Type
MaxTypeDepth == 2
\* deepest nesting of FfiType::Reference
MaxRefDepth == 2
\* most helper requests made during one render
MaxRequests == 4
\* most components handed to write_bindings
MaxComponents == 2

----------------------------------------------------------------------------
(* Results of a call *)

Pending == [kind |-> "pending", val |-> <<>>]

Ok(v) == [kind |-> "ok", val |-> v]

Panic(m) == [kind |-> "panic", val |-> <<m>>]

Err(m) == [kind |-> "err", val |-> <<m>>]

None == <<>>

Some(v) == <<v>>

is_some(o) == Len(o) = 1

unwrap(o) == o[1]

----------------------------------------------------------------------------
(* Characters and the case conversions of the heck crate *)

LowerChars == <<"a", "b", "c", "d", "e", "f", "g", "h", "i", "j", "k", "l", "m", "n", "o", "p", "q", "r", "s", "t", "u", "v", "w", "x", "y", "z">>

UpperChars == <<"A", "B", "C", "D", "E", "F", "G", "H", "I", "J", "K", "L", "M", "N", "O", "P", "Q", "R", "S", "T", "U", "V", "W", "X", "Y", "Z">>

DigitChars == <<"0", "1", "2", "3", "4", "5", "6", "7", "8", "9">>

Range(s) == {s[i] : i \in 1..Len(s)}

is_lowercase(c) == c \in Range(LowerChars)

is_uppercase(c) == c \in Range(UpperChars)

is_alphanumeric(c) == is_lowercase(c) \/ is_uppercase(c) \/ c \in Range(DigitChars)

IndexIn(s, c) == CHOOSE i \in 1..Len(s) : s[i] = c

char_to_lowercase(c) == IF is_uppercase(c) THEN LowerChars[IndexIn(UpperChars, c)] ELSE c

char_to_uppercase(c) == IF is_lowercase(c) THEN UpperChars[IndexIn(LowerChars, c)] ELSE c

lowercase(w) == [i \in 1..Len(w) |-> char_to_lowercase(w[i])]

capitalize(w) ==
    [i \in 1..Len(w) |-> IF i = 1 THEN char_to_uppercase(w[i]) ELSE char_to_lowercase(w[i])]

\* s.split(|c| !c.is_alphanumeric()): the maximal runs between separators,
\* empty runs included
RECURSIVE split_non_alphanumeric(_, _, _)
split_non_alphanumeric(s, i, cur) ==
    IF i > Len(s) THEN <<cur>>
    ELSE IF is_alphanumeric(s[i]) THEN split_non_alphanumeric(s, i + 1, Append(cur, s[i]))
    ELSE <<cur>> \o split_non_alphanumeric(s, i + 1, <<>>)

\* heck's transform loop over one run: a word ends before an uppercase
\* character that follows a lowercase one, and before the last uppercase
\* character of an uppercase run that is followed by a lowercase one.
\* mode is "Boundary", "Lowercase" or "Uppercase"; init is where the current
\* word starts.
RECURSIVE words_of_run(_, _, _, _)
words_of_run(w, i, init, mode) ==
    IF i > Len(w) THEN <<>>
    ELSE IF i = Len(w) THEN <<SubSeq(w, init, Len(w))>>
    ELSE LET c == w[i]
             next == w[i + 1]
             next_mode == IF is_lowercase(c) THEN "Lowercase"
                          ELSE IF is_uppercase(c) THEN "Uppercase"
                          ELSE mode
         IN IF next_mode = "Lowercase" /\ is_uppercase(next)
            THEN <<SubSeq(w, init, i)>> \o words_of_run(w, i + 1, i + 1, "Boundary")
            ELSE IF mode = "Uppercase" /\ is_uppercase(c) /\ is_lowercase(next)
            THEN <<SubSeq(w, init, i - 1)>> \o words_of_run(w, i + 1, i, "Boundary")
            ELSE words_of_run(w, i + 1, init, next_mode)

RECURSIVE words_of_runs(_, _)
words_of_runs(runs, k) ==
    IF k > Len(runs) THEN <<>>
    ELSE words_of_run(runs[k], 1, 1, "Boundary") \o words_of_runs(runs, k + 1)

words(s) == words_of_runs(split_non_alphanumeric(s, 1, <<>>), 1)

RECURSIVE join_capitalized(_, _)
join_capitalized(ws, k) ==
    IF k > Len(ws) THEN <<>> ELSE capitalize(ws[k]) \o join_capitalized(ws, k + 1)

\* heck::ToUpperCamelCase
to_upper_camel_case(s) == join_capitalized(words(s), 1)

\* heck::ToLowerCamelCase: the first word lowercased, the others capitalized
to_lower_camel_case(s) ==
    LET ws == words(s)
    IN IF Len(ws) = 0 THEN <<>> ELSE lowercase(ws[1]) \o join_capitalized(ws, 2)

----------------------------------------------------------------------------
(* Reserved words and escaping *)

\* the grave accent character U+0060 that format! of quote_general_keyword puts around nm
\* (the character itself cannot be written inside a TLA+ string)
Backtick == "<U+0060>"

KEYWORDS ==
    {
      <<"a", "s", "s", "o", "c", "i", "a", "t", "e", "d", "t", "y", "p", "e">>,
      <<"c", "l", "a", "s", "s">>,
      <<"d", "e", "i", "n", "i", "t">>,
      <<"e", "n", "u", "m">>,
      <<"e", "x", "t", "e", "n", "s", "i", "o", "n">>,
      <<"f", "i", "l", "e", "p", "r", "i", "v", "a", "t", "e">>,
      <<"f", "u", "n", "c">>,
      <<"i", "m", "p", "o", "r", "t">>,
      <<"i", "n", "i", "t">>,
      <<"i", "n", "o", "u", "t">>,
      <<"i", "n", "t", "e", "r", "n", "a", "l">>,
      <<"l", "e", "t">>,
      <<"o", "p", "e", "n">>,
      <<"o", "p", "e", "r", "a", "t", "o", "r">>,
      <<"p", "r", "i", "v", "a", "t", "e">>,
      <<"p", "r", "e", "c", "e", "d", "e", "n", "c", "e", "g", "r", "o", "u", "p">>,
      <<"p", "r", "o", "t", "o", "c", "o", "l">>,
      <<"p", "u", "b", "l", "i", "c">>,
      <<"r", "e", "t", "h", "r", "o", "w", "s">>,
      <<"s", "t", "a", "t", "i", "c">>,
      <<"s", "t", "r", "u", "c", "t">>,
      <<"s", "u", "b", "s", "c", "r", "i", "p", "t">>,
      <<"t", "y", "p", "e", "a", "l", "i", "a", "s">>,
      <<"v", "a", "r">>,
      <<"b", "r", "e", "a", "k">>,
      <<"c", "a", "s", "e">>,
      <<"c", "a", "t", "c", "h">>,
      <<"c", "o", "n", "t", "i", "n", "u", "e">>,
      <<"d", "e", "f", "a", "u", "l", "t">>,
      <<"d", "e", "f", "e", "r">>,
      <<"d", "o">>,
      <<"e", "l", "s", "e">>,
      <<"f", "a", "l", "l", "t", "h", "r", "o", "u", "g", "h">>,
      <<"f", "o", "r">>,
      <<"g", "u", "a", "r", "d">>,
      <<"i", "f">>,
      <<"i", "n">>,
      <<"r", "e", "p", "e", "a", "t">>,
      <<"r", "e", "t", "u", "r", "n">>,
      <<"t", "h", "r", "o", "w">>,
      <<"s", "w", "i", "t", "c", "h">>,
      <<"w", "h", "e", "r", "e">>,
      <<"w", "h", "i", "l", "e">>,
      <<"A", "n", "y">>,
      <<"a", "s">>,
      <<"a", "w", "a", "i", "t">>,
      <<"f", "a", "l", "s", "e">>,
      <<"i", "s">>,
      <<"n", "i", "l">>,
      <<"s", "e", "l", "f">>,
      <<"S", "e", "l", "f">>,
      <<"s", "u", "p", "e", "r">>,
      <<"t", "h", "r", "o", "w", "s">>,
      <<"t", "r", "u", "e">>,
      <<"t", "r", "y">>
    }

\* a faulty variant: the lookup is made case-insensitively
quote_general_keyword_nocase(nm) ==
    IF lowercase(nm) \in {lowercase(k) : k \in KEYWORDS}
    THEN <<Backtick>> \o nm \o <<Backtick>>
    ELSE nm

quote_general_keyword(nm) ==
    IF nm \in KEYWORDS THEN <<Backtick>> \o nm \o <<Backtick>> ELSE nm

ARG_KEYWORDS ==
    { <<"i", "n", "o", "u", "t">>, <<"v", "a", "r">>, <<"l", "e", "t">> }

\* a faulty variant: the argument-position lookup also consults the general set
quote_arg_keyword_either(nm) ==
    IF nm \in ARG_KEYWORDS \/ nm \in KEYWORDS THEN <<Backtick>> \o nm \o <<Backtick>> ELSE nm

quote_arg_keyword(nm) ==
    IF nm \in ARG_KEYWORDS THEN <<Backtick>> \o nm \o <<Backtick>> ELSE nm

----------------------------------------------------------------------------
(* PHPCodeOracle: names *)

PHPCodeOracle_class_name(nm) == to_upper_camel_case(nm)

PHPCodeOracle_fn_name(nm) == to_lower_camel_case(nm)

PHPCodeOracle_var_name(nm) == to_lower_camel_case(nm)

ffi_callback_name(nm) == <<"U", "n", "i", "f", "f", "i">> \o to_upper_camel_case(nm)

ffi_struct_name(nm) == <<"U", "n", "i", "f", "f", "i">> \o to_upper_camel_case(nm)

\* a faulty variant: an object without a callback interface gets the class name twice
PHPCodeOracle_object_names_same(obj) ==
    LET class_name == PHPCodeOracle_class_name(obj.name)
    IN IF obj.has_callback_interface
       THEN <<class_name, class_name \o <<"I", "m", "p", "l">> >>
       ELSE <<class_name, class_name>>

PHPCodeOracle_object_names(obj) ==
    LET class_name == PHPCodeOracle_class_name(obj.name)
    IN IF obj.has_callback_interface
       THEN <<class_name, class_name \o <<"I", "m", "p", "l">> >>
       ELSE <<class_name \o <<"P", "r", "o", "t", "o", "c", "o", "l">>, class_name>>

----------------------------------------------------------------------------
(* filters: names *)

filters_class_name(nm) == Ok(PHPCodeOracle_class_name(nm))

filters_fn_name(nm) == Ok(quote_general_keyword(PHPCodeOracle_fn_name(nm)))

filters_var_name(nm) == Ok(quote_general_keyword(PHPCodeOracle_var_name(nm)))

filters_arg_name(nm) == Ok(quote_arg_keyword(PHPCodeOracle_var_name(nm)))

filters_object_names(obj) == Ok(PHPCodeOracle_object_names(obj))

----------------------------------------------------------------------------
(* FfiType and the FFI type mapper *)

\* A value of an enum is the tuple of its variant's name and the variant's
\* fields: FfiType::Int8 is <<"Int8">>, FfiType::Callback(name) is
\* <<"Callback", name>>, FfiType::Reference(inner) is <<"Reference", inner>>,
\* Type::Map { key_type, value_type } is <<"Map", key_type, value_type>>.
tag(v) == v[1]

\* the name a variant carries
name_of(v) == v[2]

\* the type a Reference, an Optional or a Sequence wraps
inner_of(v) == v[2]

FfiNames == { <<"f", "o", "o">>, <<"f", "o", "o", "_", "b", "a", "r">> }

FfiIntTags == {"Int8", "UInt8", "Int16", "UInt16", "Int32", "UInt32", "Int64", "UInt64"}

FfiFloatTags == {"Float32", "Float64"}

FfiLeafTypes ==
    {<<t>> : t \in FfiIntTags \cup FfiFloatTags
                 \cup {"Handle", "RustCallStatus", "ForeignBytes", "VoidPointer"}}
    \cup {<<t, n>> : t \in {"RustArcPtr", "Callback", "Struct"}, n \in FfiNames}
    \cup {<<"RustBuffer", m>> : m \in {None} \cup {Some(n) : n \in FfiNames}}

RECURSIVE FfiTypesUpTo(_)
FfiTypesUpTo(d) ==
    IF d = 0 THEN FfiLeafTypes
    ELSE FfiLeafTypes \cup {<<"Reference", t>> : t \in FfiTypesUpTo(d - 1)}

FfiTypes == FfiTypesUpTo(MaxRefDepth)

RECURSIVE PHPCodeOracle_ffi_type_label(_)
PHPCodeOracle_ffi_type_label(ffi_type) ==
    CASE tag(ffi_type) = "Int8" -> <<"Int8">>
      [] tag(ffi_type) = "UInt8" -> <<"UInt8">>
      [] tag(ffi_type) = "Int16" -> <<"Int16">>
      [] tag(ffi_type) = "UInt16" -> <<"UInt16">>
      [] tag(ffi_type) = "Int32" -> <<"Int32">>
      [] tag(ffi_type) = "UInt32" -> <<"UInt32">>
      [] tag(ffi_type) = "Int64" -> <<"Int64">>
      [] tag(ffi_type) = "UInt64" -> <<"UInt64">>
      [] tag(ffi_type) = "Float32" -> <<"Float">>
      [] tag(ffi_type) = "Float64" -> <<"Double">>
      [] tag(ffi_type) = "Handle" -> <<"UInt64">>
      [] tag(ffi_type) = "RustArcPtr" -> <<"UnsafeMutableRawPointer">>
      [] tag(ffi_type) = "RustBuffer" -> <<"RustBuffer">>
      [] tag(ffi_type) = "RustCallStatus" -> <<"RustCallStatus">>
      [] tag(ffi_type) = "ForeignBytes" -> <<"ForeignBytes">>
      [] tag(ffi_type) = "Callback" -> <<"@escaping ">> \o ffi_callback_name(name_of(ffi_type))
      [] tag(ffi_type) = "Struct" -> ffi_struct_name(name_of(ffi_type))
      [] tag(ffi_type) = "Reference" ->
            <<"UnsafeMutablePointer<">> \o PHPCodeOracle_ffi_type_label(inner_of(ffi_type)) \o <<">">>
      [] tag(ffi_type) = "VoidPointer" -> <<"UnsafeMutableRawPointer">>

\* a faulty variant: the catch-all arm answers "0" instead of stopping
PHPCodeOracle_ffi_default_value_lenient(return_type) ==
    IF is_some(return_type)
    THEN LET t == unwrap(return_type)
         IN CASE tag(t) \in FfiIntTags -> Ok(<<"0">>)
              [] tag(t) \in FfiFloatTags -> Ok(<<"0.0">>)
              [] tag(t) = "RustArcPtr" -> Ok(<<"nil">>)
              [] tag(t) = "RustBuffer" -> Ok(<<"RustBuffer.empty()">>)
              [] OTHER -> Ok(<<"0">>)
    ELSE Ok(<<"0">>)

PHPCodeOracle_ffi_default_value(return_type) ==
    IF is_some(return_type)
    THEN LET t == unwrap(return_type)
         IN CASE tag(t) \in FfiIntTags -> Ok(<<"0">>)
              [] tag(t) \in FfiFloatTags -> Ok(<<"0.0">>)
              [] tag(t) = "RustArcPtr" -> Ok(<<"nil">>)
              [] tag(t) = "RustBuffer" -> Ok(<<"RustBuffer.empty()">>)
              [] OTHER -> Panic("not implemented: FFI return type")
    ELSE Ok(<<"0">>)

filters_ffi_type_name(ffi_type) == Ok(PHPCodeOracle_ffi_type_label(ffi_type))

filters_ffi_default_value(return_type) == PHPCodeOracle_ffi_default_value(return_type)

\* a faulty variant: a handle is declared as a 32-bit integer in the header
RECURSIVE header_ffi_type_name_narrow(_)
header_ffi_type_name_narrow(ffi_type) ==
    CASE tag(ffi_type) = "Int8" -> <<"int8_t">>
      [] tag(ffi_type) = "UInt8" -> <<"uint8_t">>
      [] tag(ffi_type) = "Int16" -> <<"int16_t">>
      [] tag(ffi_type) = "UInt16" -> <<"uint16_t">>
      [] tag(ffi_type) = "Int32" -> <<"int32_t">>
      [] tag(ffi_type) = "UInt32" -> <<"uint32_t">>
      [] tag(ffi_type) = "Int64" -> <<"int64_t">>
      [] tag(ffi_type) = "UInt64" -> <<"uint64_t">>
      [] tag(ffi_type) = "Float32" -> <<"float">>
      [] tag(ffi_type) = "Float64" -> <<"double">>
      [] tag(ffi_type) = "Handle" -> <<"uint32_t">>
      [] tag(ffi_type) = "RustArcPtr" -> <<"void*_Nonnull">>
      [] tag(ffi_type) = "RustBuffer" -> <<"RustBuffer">>
      [] tag(ffi_type) = "RustCallStatus" -> <<"RustCallStatus">>
      [] tag(ffi_type) = "ForeignBytes" -> <<"ForeignBytes">>
      [] tag(ffi_type) = "Callback" -> ffi_callback_name(name_of(ffi_type)) \o <<" _Nonnull">>
      [] tag(ffi_type) = "Struct" -> ffi_struct_name(name_of(ffi_type))
      [] tag(ffi_type) = "Reference" -> header_ffi_type_name_narrow(inner_of(ffi_type)) \o <<"* _Nonnull">>
      [] tag(ffi_type) = "VoidPointer" -> <<"void* _Nonnull">>

RECURSIVE header_ffi_type_name(_)
header_ffi_type_name(ffi_type) ==
    CASE tag(ffi_type) = "Int8" -> <<"int8_t">>
      [] tag(ffi_type) = "UInt8" -> <<"uint8_t">>
      [] tag(ffi_type) = "Int16" -> <<"int16_t">>
      [] tag(ffi_type) = "UInt16" -> <<"uint16_t">>
      [] tag(ffi_type) = "Int32" -> <<"int32_t">>
      [] tag(ffi_type) = "UInt32" -> <<"uint32_t">>
      [] tag(ffi_type) = "Int64" -> <<"int64_t">>
      [] tag(ffi_type) = "UInt64" -> <<"uint64_t">>
      [] tag(ffi_type) = "Float32" -> <<"float">>
      [] tag(ffi_type) = "Float64" -> <<"double">>
      [] tag(ffi_type) = "Handle" -> <<"uint64_t">>
      [] tag(ffi_type) = "RustArcPtr" -> <<"void*_Nonnull">>
      [] tag(ffi_type) = "RustBuffer" -> <<"RustBuffer">>
      [] tag(ffi_type) = "RustCallStatus" -> <<"RustCallStatus">>
      [] tag(ffi_type) = "ForeignBytes" -> <<"ForeignBytes">>
      [] tag(ffi_type) = "Callback" -> ffi_callback_name(name_of(ffi_type)) \o <<" _Nonnull">>
      [] tag(ffi_type) = "Struct" -> ffi_struct_name(name_of(ffi_type))
      [] tag(ffi_type) = "Reference" -> header_ffi_type_name(inner_of(ffi_type)) \o <<"* _Nonnull">>
      [] tag(ffi_type) = "VoidPointer" -> <<"void* _Nonnull">>

filters_header_ffi_type_name(ffi_type) == Ok(header_ffi_type_name(ffi_type))

----------------------------------------------------------------------------
(* Type and the type oracle *)

PrimitiveTags ==
    {"UInt8", "Int8", "UInt16", "Int16", "UInt32", "Int32", "UInt64", "Int64",
     "Float32", "Float64", "Boolean", "String", "Bytes", "Timestamp", "Duration"}

TypeTags ==
    PrimitiveTags \cup {"Enum", "Object", "Record", "CallbackInterface", "Optional",
                        "Sequence", "Map", "External", "Custom"}

TypeNames == { <<"P", "o", "i", "n", "t">>, <<"i", "f">> }

LeafTypes ==
    {<<t>> : t \in PrimitiveTags}
    \cup {<<t, n>> : t \in {"Enum", "Record", "CallbackInterface", "External"}, n \in TypeNames}
    \cup {<<"Object", n, i>> : n \in TypeNames, i \in {"Struct", "Trait"}}
    \cup {<<"Custom", n, <<"String">> >> : n \in TypeNames}

MapKeyTypes == {<<"String">>, <<"Int32">>}

RECURSIVE TypesUpTo(_)
TypesUpTo(d) ==
    IF d = 0 THEN LeafTypes
    ELSE LET inner == TypesUpTo(d - 1)
         IN LeafTypes
            \cup {<<c, t>> : c \in {"Optional", "Sequence"}, t \in inner}
            \cup {<<"Map", k, v>> : k \in MapKeyTypes, v \in inner}

Types == TypesUpTo(MaxTypeDepth)

\* todo!()
Todo == Panic("not yet implemented")

\* a Box<dyn CodeType> made for the Type tag t
CodeTypeFor(t) == [for_tag |-> t]

\* a faulty variant: an External type silently gets the String mapping
create_code_type_default(type_) ==
    CASE tag(type_) = "UInt8" -> Todo
      [] tag(type_) = "Int8" -> Todo
      [] tag(type_) = "UInt16" -> Todo
      [] tag(type_) = "Int16" -> Todo
      [] tag(type_) = "UInt32" -> Todo
      [] tag(type_) = "Int32" -> Todo
      [] tag(type_) = "UInt64" -> Todo
      [] tag(type_) = "Int64" -> Todo
      [] tag(type_) = "Float32" -> Todo
      [] tag(type_) = "Float64" -> Todo
      [] tag(type_) = "Boolean" -> Todo
      [] tag(type_) = "String" -> Todo
      [] tag(type_) = "Bytes" -> Todo
      [] tag(type_) = "Timestamp" -> Todo
      [] tag(type_) = "Duration" -> Todo
      [] tag(type_) = "Enum" -> Todo
      [] tag(type_) = "Object" -> Todo
      [] tag(type_) = "Record" -> Todo
      [] tag(type_) = "CallbackInterface" -> Todo
      [] tag(type_) = "Optional" -> Todo
      [] tag(type_) = "Sequence" -> Todo
      [] tag(type_) = "Map" -> Todo
      [] tag(type_) = "External" -> Ok(CodeTypeFor("String"))
      [] tag(type_) = "Custom" -> Todo

create_code_type(type_) ==
    CASE tag(type_) = "UInt8" -> Todo
      [] tag(type_) = "Int8" -> Todo
      [] tag(type_) = "UInt16" -> Todo
      [] tag(type_) = "Int16" -> Todo
      [] tag(type_) = "UInt32" -> Todo
      [] tag(type_) = "Int32" -> Todo
      [] tag(type_) = "UInt64" -> Todo
      [] tag(type_) = "Int64" -> Todo
      [] tag(type_) = "Float32" -> Todo
      [] tag(type_) = "Float64" -> Todo
      [] tag(type_) = "Boolean" -> Todo
      [] tag(type_) = "String" -> Todo
      [] tag(type_) = "Bytes" -> Todo
      [] tag(type_) = "Timestamp" -> Todo
      [] tag(type_) = "Duration" -> Todo
      [] tag(type_) = "Enum" -> Todo
      [] tag(type_) = "Object" -> Todo
      [] tag(type_) = "Record" -> Todo
      [] tag(type_) = "CallbackInterface" -> Todo
      [] tag(type_) = "Optional" -> Todo
      [] tag(type_) = "Sequence" -> Todo
      [] tag(type_) = "Map" -> Todo
      [] tag(type_) = "External" -> Todo
      [] tag(type_) = "Custom" -> Todo

find(type_) == create_code_type(type_)

\* oracle().find(&as_type.as_type()).canonical_name(): the panic of find
\* unwinds through the filter
filters_canonical_name(as_type) ==
    LET code_type == find(as_type)
    IN IF code_type.kind = "ok" THEN Ok(code_type.val.canonical_name) ELSE code_type

----------------------------------------------------------------------------
(* The template filters, called one at a time *)

\* lowercase, capitalized, uppercase and underscore-suffixed spellings of
\* every reserved word
KeywordSpellings ==
    UNION {{k, lowercase(k), capitalize(k), [i \in 1..Len(k) |-> char_to_uppercase(k[i])],
            k \o <<"_">>} : k \in KEYWORDS}

IdentAlphabet == {"i", "s", "S", "_", "1"}

RECURSIVE SeqsUpTo(_, _)
SeqsUpTo(S, n) ==
    IF n = 0 THEN {<<>>}
    ELSE LET shorter == SeqsUpTo(S, n - 1)
         IN shorter \cup {Append(q, c) : q \in shorter, c \in S}

\* identifiers: non-empty, not starting with a digit
FreeIdents ==
    {q \in SeqsUpTo(IdentAlphabet, MaxIdentLen) : Len(q) > 0 /\ q[1] \notin Range(DigitChars)}

Idents == KeywordSpellings \cup FreeIdents

Objects == {[name |-> n, has_callback_interface |-> b] : n \in Idents, b \in BOOLEAN}

NameFilters == {"class_name", "fn_name", "var_name", "arg_name"}

FfiFilters == {"ffi_type_name", "header_ffi_type_name"}

TypeFilters == {"find", "canonical_name"}

FilterArgs(f) ==
    CASE f \in NameFilters -> Idents
      [] f = "object_names" -> Objects
      [] f \in FfiFilters -> FfiTypes
      [] f = "ffi_default_value" -> {None} \cup {Some(t) : t \in FfiTypes}
      [] f \in TypeFilters -> Types

NoRender ==
    /\ include_once_names = {}
    /\ requested = <<>>
    /\ emitted = <<>>

NoBindings ==
    /\ components = <<>>
    /\ updated = FALSE
    /\ wb_pc = "off"
    /\ idx = 0
    /\ generated = {}
    /\ files = {}
    /\ wb_result = Pending

InitFilters ==
    /\ fn \in NameFilters \cup FfiFilters \cup TypeFilters \cup {"object_names", "ffi_default_value"}
    /\ arg \in FilterArgs(fn)
    /\ ret = Pending
    /\ NoRender
    /\ NoBindings

Call(f, r) ==
    /\ fn = f
    /\ ret = Pending
    /\ ret' = r
    /\ UNCHANGED <<fn, arg, include_once_names, requested, emitted,
                   components, updated, wb_pc, idx, generated, files, wb_result>>

Call_find == Call("find", find(arg))

Call_canonical_name == Call("canonical_name", filters_canonical_name(arg))

Call_class_name == Call("class_name", filters_class_name(arg))

Call_fn_name == Call("fn_name", filters_fn_name(arg))

Call_var_name == Call("var_name", filters_var_name(arg))

Call_arg_name == Call("arg_name", filters_arg_name(arg))

Call_object_names == Call("object_names", filters_object_names(arg))

Call_ffi_type_name == Call("ffi_type_name", filters_ffi_type_name(arg))

Call_header_ffi_type_name == Call("header_ffi_type_name", filters_header_ffi_type_name(arg))

Call_ffi_default_value == Call("ffi_default_value", filters_ffi_default_value(arg))

NextFilters ==
    \/ Call_find
    \/ Call_canonical_name
    \/ Call_class_name
    \/ Call_fn_name
    \/ Call_var_name
    \/ Call_arg_name
    \/ Call_object_names
    \/ Call_ffi_type_name
    \/ Call_header_ffi_type_name
    \/ Call_ffi_default_value

SpecFilters == InitFilters /\ [][NextFilters]_vars

----------------------------------------------------------------------------
(* TypeRenderer: the helpers emitted once per output file *)

HelperNames == {"FfiConverterString", "FfiConverterTypePoint",
                "FfiConverterSequenceTypePoint", "FfiConverterOptionalString"}

\* a faulty variant: the set survives from the render of a previous file
TypeRenderer_new_stale == {"FfiConverterSequenceTypePoint"}

\* TypeRenderer::new: include_once_names starts empty
TypeRenderer_new == {}

\* Records name in the set; the answer is TRUE when the name was not there
\* before, and only then does the template emit the helper.
include_once_check(names, name) == [names |-> names \cup {name}, emit |-> name \notin names]

NoFilter ==
    /\ fn = "none"
    /\ arg = <<>>
    /\ ret = Pending

InitRender ==
    /\ include_once_names = TypeRenderer_new
    /\ requested = [n \in HelperNames |-> 0]
    /\ emitted = <<>>
    /\ NoFilter
    /\ NoBindings

RequestedTotal == LET Sum[S \in SUBSET HelperNames] ==
                          IF S = {} THEN 0
                          ELSE LET n == CHOOSE x \in S : TRUE
                               IN requested[n] + Sum[S \ {n}]
                  IN Sum[HelperNames]

\* a template asks for the helper `name`
RequestHelper(name) ==
    /\ DOMAIN requested = HelperNames
    /\ RequestedTotal < MaxRequests
    /\ LET r == include_once_check(include_once_names, name)
       IN /\ include_once_names' = r.names
          /\ emitted' = IF r.emit THEN Append(emitted, name) ELSE emitted
    /\ requested' = [requested EXCEPT ![name] = @ + 1]
    /\ UNCHANGED <<fn, arg, ret, components, updated, wb_pc, idx, generated, files, wb_result>>

NextRender == \E name \in HelperNames : RequestHelper(name)

SpecRender == InitRender /\ [][NextRender]_vars

----------------------------------------------------------------------------
(* BindingGeneratorPHP: update_component_configs and write_bindings *)

Namespaces == {"a", "b"}

ModuleNames == {"a", "m"}

\* what rendering the templates does for a component: it succeeds, the
\* wrapper's render returns an error, or the type renderer's render fails
\* inside PhpWrapper::new
RenderOutcomes == {"ok", "render_err", "type_render_panic"}

ComponentValues ==
    [module_name : {None} \cup {Some(m) : m \in ModuleNames},
     namespace : Namespaces,
     rendering : RenderOutcomes]

RECURSIVE ComponentSeqs(_)
ComponentSeqs(n) ==
    IF n = 0 THEN {<<>>}
    ELSE LET shorter == ComponentSeqs(n - 1)
         IN shorter \cup {Append(q, c) : q \in shorter, c \in ComponentValues}

Config_module_name(config) ==
    IF is_some(config.module_name)
    THEN Ok(unwrap(config.module_name))
    ELSE Panic("module name should have been set in update_component_configs")

\* a faulty variant: a render error is swallowed and an empty library is returned
generate_bindings_swallow(c) ==
    CASE c.rendering = "type_render_panic" -> Panic("type rendering")
      [] c.rendering = "render_err" -> Ok(<<"library", "">>)
      [] c.rendering = "ok" -> Ok(<<"library", c.namespace>>)

generate_bindings(c) ==
    CASE c.rendering = "type_render_panic" -> Panic("type rendering")
      [] c.rendering = "render_err" -> Err("failed to render PHP library")
      [] c.rendering = "ok" -> Ok(<<"library", c.namespace>>)

InitBindings ==
    /\ components \in ComponentSeqs(MaxComponents)
    /\ updated = FALSE
    /\ wb_pc = "new"
    /\ idx = 0
    /\ generated = {}
    /\ files = {}
    /\ wb_result = Pending
    /\ NoFilter
    /\ NoRender

\* a faulty variant: the namespace is stored whether or not a module name
\* was configured (insert in place of get_or_insert_with)
update_component_configs_overwrite ==
    /\ wb_pc = "new"
    /\ ~updated
    /\ components' = [i \in 1..Len(components) |->
                        [components[i] EXCEPT !.module_name = Some(components[i].namespace)]]
    /\ updated' = TRUE
    /\ UNCHANGED <<fn, arg, ret, include_once_names, requested, emitted,
                   wb_pc, idx, generated, files, wb_result>>

update_component_configs ==
    /\ wb_pc = "new"
    /\ ~updated
    /\ components' = [i \in 1..Len(components) |->
                        IF is_some(components[i].module_name)
                        THEN components[i]
                        ELSE [components[i] EXCEPT !.module_name = Some(components[i].namespace)]]
    /\ updated' = TRUE
    /\ UNCHANGED <<fn, arg, ret, include_once_names, requested, emitted,
                   wb_pc, idx, generated, files, wb_result>>

\* write_bindings is entered: the loop starts at the first component
write_bindings_enter ==
    /\ wb_pc = "new"
    /\ wb_pc' = "loop"
    /\ idx' = 1
    /\ UNCHANGED <<fn, arg, ret, include_once_names, requested, emitted,
                   components, updated, generated, files, wb_result>>

\* let Bindings { library } = generate_bindings(config, ci)?;
write_bindings_generate ==
    /\ wb_pc = "loop"
    /\ idx <= Len(components)
    /\ LET r == generate_bindings(components[idx])
       IN IF r.kind = "ok"
          THEN /\ generated' = generated \cup {idx}
               /\ wb_pc' = "write"
               /\ UNCHANGED wb_result
          ELSE /\ wb_result' = r
               /\ wb_pc' = "done"
               /\ UNCHANGED generated
    /\ UNCHANGED <<fn, arg, ret, include_once_names, requested, emitted,
                   components, updated, idx, files>>

\* fs::write(out_dir.join(format!("{}.php", config.module_name())), library)?
\* The write succeeds, or it fails and may leave the file truncated.
write_bindings_write ==
    /\ wb_pc = "write"
    /\ LET m == Config_module_name(components[idx])
       IN IF m.kind = "panic"
          THEN /\ wb_result' = m
               /\ wb_pc' = "done"
               /\ UNCHANGED <<idx, files>>
          ELSE LET path == <<m.val, ".php">>
                   others == {f \in files : f.path # path}
               IN \/ /\ files' = others \cup {[path |-> path, by |-> idx, content |-> "library"]}
                     /\ idx' = idx + 1
                     /\ wb_pc' = "loop"
                     /\ UNCHANGED wb_result
                  \/ /\ files' \in {files, others \cup {[path |-> path, by |-> idx,
                                                        content |-> "truncated"]}}
                     /\ wb_result' = Err("io")
                     /\ wb_pc' = "done"
                     /\ UNCHANGED idx
    /\ UNCHANGED <<fn, arg, ret, include_once_names, requested, emitted,
                   components, updated, generated>>

\* Ok(()) after the last component
write_bindings_return ==
    /\ wb_pc = "loop"
    /\ idx > Len(components)
    /\ wb_result' = Ok(<<>>)
    /\ wb_pc' = "done"
    /\ UNCHANGED <<fn, arg, ret, include_once_names, requested, emitted,
                   components, updated, idx, generated, files>>

NextBindings ==
    \/ update_component_configs
    \/ write_bindings_enter
    \/ write_bindings_generate
    \/ write_bindings_write
    \/ write_bindings_return

SpecBindings == InitBindings /\ [][NextBindings]_vars

----------------------------------------------------------------------------
(* Properties *)

Returned(f) == fn = f /\ ret.kind # "pending"

Escaped(nm) == <<Backtick>> \o nm \o <<Backtick>>

IsEscaped(s) == Len(s) >= 2 /\ s[1] = Backtick /\ s[Len(s)] = Backtick

\* C1: find answers every Type tag either with the CodeType made for exactly
\* that tag or by stopping with a panic; it never answers with the mapping of
\* another tag.
C1_FindTotalOrFatal ==
    Returned("find") =>
        \/ ret.kind = "panic"
        \/ ret.kind = "ok" /\ ret.val = CodeTypeFor(tag(arg))

C1_Witness ==
    /\ Returned("find")
    /\ arg = <<"Sequence", <<"Optional", <<"String">> >> >>
    /\ ret.kind = "panic"

\* C2 (as the specification states it): canonical_name returns a string for
\* every type, and the strings of two different types differ.
C2_CanonicalNameInjective ==
    Returned("canonical_name") =>
        /\ ret.kind = "ok"
        /\ \A t \in Types \ {arg} : filters_canonical_name(t) # ret

\* the results of fn_name and var_name for the identifiers whose
\* lower-camel-case form is not reserved
UnreservedResults ==
    {filters_fn_name(x).val : x \in {y \in Idents : to_lower_camel_case(y) \notin KEYWORDS}}
    \cup {filters_var_name(x).val : x \in {y \in Idents : to_lower_camel_case(y) \notin KEYWORDS}}

\* the results of fn_name and var_name for the identifiers that are not
\* themselves reserved words
NonKeywordResults ==
    {filters_fn_name(x).val : x \in Idents \ KEYWORDS}
    \cup {filters_var_name(x).val : x \in Idents \ KEYWORDS}

\* C3 (amended): fn_name and var_name return the lower-camel-case form c of
\* the identifier, wrapped in grave accents exactly when c is a reserved
\* word; a wrapped result differs from the result for every identifier whose
\* form c is not reserved.
C3_EscapeDecidedAfterCaseConversion ==
    (Returned("fn_name") \/ Returned("var_name")) =>
        LET c == to_lower_camel_case(arg)
        IN /\ ret.kind = "ok"
           /\ IF c \in KEYWORDS
              THEN ret.val = Escaped(c) /\ ret.val \notin UnreservedResults
              ELSE ret.val = c /\ ~IsEscaped(ret.val)

C3_Witness ==
    /\ Returned("var_name")
    /\ arg \notin KEYWORDS
    /\ to_lower_camel_case(arg) \in KEYWORDS
    /\ IsEscaped(ret.val)

\* C3 (as the specification states it): a reserved word W gets an escaped
\* form that no identifier outside the reserved words gets, and an
\* identifier outside the reserved words gets its case-converted form
\* unescaped.
C3_Original ==
    (Returned("fn_name") \/ Returned("var_name")) =>
        IF arg \in KEYWORDS
        THEN IsEscaped(ret.val) /\ ret.val \notin NonKeywordResults
        ELSE ret.val = to_lower_camel_case(arg)

\* C4 (as the specification states it): class_name of a reserved word is the
\* escaped form of the class-cased name, that is the name wrapped in grave
\* accents when it is a reserved word, and differs from the reserved word
\* itself.
C4_ClassNameEscapesReservedWord ==
    (Returned("class_name") /\ arg \in KEYWORDS) =>
        /\ ret.kind = "ok"
        /\ ret.val = quote_general_keyword(to_upper_camel_case(arg))
        /\ ret.val # arg

\* C5 (amended): object_names returns two different names for every object;
\* has_callback_interface only decides which of the two is the bare class
\* name, the first (the second being suffixed Impl) or the second (the first
\* being suffixed Protocol).
C5_ObjectNamesAlwaysDistinct ==
    Returned("object_names") =>
        LET class_name == to_upper_camel_case(arg.name)
        IN /\ ret.kind = "ok"
           /\ ret.val[1] # ret.val[2]
           /\ arg.has_callback_interface =>
                  (ret.val[1] = class_name /\ ret.val[2] = class_name \o <<"I", "m", "p", "l">>)
           /\ ~arg.has_callback_interface =>
                  (ret.val[2] = class_name
                   /\ ret.val[1] = class_name \o <<"P", "r", "o", "t", "o", "c", "o", "l">>)

C5_Witness ==
    /\ Returned("object_names")
    /\ ~arg.has_callback_interface
    /\ ret.val[1] # ret.val[2]

\* C5 (as the specification states it): the two names differ exactly when
\* the object has a callback interface.
C5_Original ==
    Returned("object_names") =>
        ((ret.val[1] # ret.val[2]) <=> arg.has_callback_interface)

\* the FfiType tags a callback method can return: the integer and float
\* scalars, the object pointer and the buffer
LegalReturnTags ==
    {"Int8", "UInt8", "Int16", "UInt16", "Int32", "UInt32", "Int64", "UInt64",
     "Float32", "Float64", "RustArcPtr", "RustBuffer"}

\* C6: ffi_default_value returns the sentinel of every legal return type (0
\* for integers, 0.0 for floats, nil for object pointers, the empty buffer
\* for buffers) and panics for every other FfiType, never returning a value
\* for it.
C6_DefaultValueOrAbort ==
    (Returned("ffi_default_value") /\ is_some(arg)) =>
        LET t == tag(unwrap(arg))
        IN IF t \in LegalReturnTags
           THEN /\ ret.kind = "ok"
                /\ ret.val = CASE t \in {"Float32", "Float64"} -> <<"0.0">>
                               [] t = "RustArcPtr" -> <<"nil">>
                               [] t = "RustBuffer" -> <<"RustBuffer.empty()">>
                               [] OTHER -> <<"0">>
           ELSE ret.kind = "panic"

C6_Witness ==
    /\ Returned("ffi_default_value")
    /\ arg = Some(<<"Handle">>)
    /\ ret.kind = "panic"

\* The binary layout a label of the generated wrapper code describes.
RECURSIVE SurfaceLayout(_)
SurfaceLayout(l) ==
    CASE Len(l) = 0 -> <<"unknown">>
      [] Len(l) >= 2 /\ l[1] = "UnsafeMutablePointer<" /\ l[Len(l)] = ">" ->
            <<"pointer_to", SurfaceLayout(SubSeq(l, 2, Len(l) - 1))>>
      [] Len(l) >= 2 /\ l[1] = "@escaping " -> <<"callback", Tail(l)>>
      [] l = <<"Int8">> -> <<"int", 8, "signed">>
      [] l = <<"UInt8">> -> <<"int", 8, "unsigned">>
      [] l = <<"Int16">> -> <<"int", 16, "signed">>
      [] l = <<"UInt16">> -> <<"int", 16, "unsigned">>
      [] l = <<"Int32">> -> <<"int", 32, "signed">>
      [] l = <<"UInt32">> -> <<"int", 32, "unsigned">>
      [] l = <<"Int64">> -> <<"int", 64, "signed">>
      [] l = <<"UInt64">> -> <<"int", 64, "unsigned">>
      [] l = <<"Float">> -> <<"float", 32>>
      [] l = <<"Double">> -> <<"float", 64>>
      [] l = <<"UnsafeMutableRawPointer">> -> <<"pointer">>
      [] OTHER -> <<"record", l>>

\* The binary layout a label of the C header describes.
RECURSIVE HeaderLayout(_)
HeaderLayout(l) ==
    CASE Len(l) = 0 -> <<"unknown">>
      [] Len(l) >= 2 /\ l[Len(l)] = "* _Nonnull" ->
            <<"pointer_to", HeaderLayout(SubSeq(l, 1, Len(l) - 1))>>
      [] Len(l) >= 2 /\ l[Len(l)] = " _Nonnull" -> <<"callback", SubSeq(l, 1, Len(l) - 1)>>
      [] l = <<"int8_t">> -> <<"int", 8, "signed">>
      [] l = <<"uint8_t">> -> <<"int", 8, "unsigned">>
      [] l = <<"int16_t">> -> <<"int", 16, "signed">>
      [] l = <<"uint16_t">> -> <<"int", 16, "unsigned">>
      [] l = <<"int32_t">> -> <<"int", 32, "signed">>
      [] l = <<"uint32_t">> -> <<"int", 32, "unsigned">>
      [] l = <<"int64_t">> -> <<"int", 64, "signed">>
      [] l = <<"uint64_t">> -> <<"int", 64, "unsigned">>
      [] l = <<"float">> -> <<"float", 32>>
      [] l = <<"double">> -> <<"float", 64>>
      [] l \in {<<"void*_Nonnull">>, <<"void* _Nonnull">>} -> <<"pointer">>
      [] OTHER -> <<"record", l>>

\* The binary layout of an FfiType itself.
RECURSIVE FfiLayout(_)
FfiLayout(t) ==
    CASE tag(t) \in {"Int8", "Int16", "Int32", "Int64"} ->
            <<"int", CASE tag(t) = "Int8" -> 8 [] tag(t) = "Int16" -> 16
                       [] tag(t) = "Int32" -> 32 [] tag(t) = "Int64" -> 64, "signed">>
      [] tag(t) \in {"UInt8", "UInt16", "UInt32", "UInt64"} ->
            <<"int", CASE tag(t) = "UInt8" -> 8 [] tag(t) = "UInt16" -> 16
                       [] tag(t) = "UInt32" -> 32 [] tag(t) = "UInt64" -> 64, "unsigned">>
      [] tag(t) = "Float32" -> <<"float", 32>>
      [] tag(t) = "Float64" -> <<"float", 64>>
      [] tag(t) = "Handle" -> <<"int", 64, "unsigned">>
      [] tag(t) \in {"RustArcPtr", "VoidPointer"} -> <<"pointer">>
      [] tag(t) \in {"RustBuffer", "RustCallStatus", "ForeignBytes"} -> <<"record", <<tag(t)>> >>
      [] tag(t) = "Struct" ->
            <<"record", <<"U", "n", "i", "f", "f", "i">> \o to_upper_camel_case(name_of(t))>>
      [] tag(t) = "Callback" ->
            <<"callback", <<"U", "n", "i", "f", "f", "i">> \o to_upper_camel_case(name_of(t))>>
      [] tag(t) = "Reference" -> <<"pointer_to", FfiLayout(inner_of(t))>>

\* C7: for every FfiType the label of the wrapper code and the label of the
\* header are both defined and describe the layout of that FfiType: the same
\* width and signedness, the same float width, a pointer, the same named
\* record, the same callback, a pointer to the same inner layout.
C7_LabelsDescribeSameLayout ==
    /\ Returned("ffi_type_name") =>
           /\ ret.kind = "ok"
           /\ SurfaceLayout(ret.val) = FfiLayout(arg)
           /\ SurfaceLayout(ret.val) = HeaderLayout(header_ffi_type_name(arg))
    /\ Returned("header_ffi_type_name") =>
           /\ ret.kind = "ok"
           /\ HeaderLayout(ret.val) = FfiLayout(arg)
           /\ HeaderLayout(ret.val) = SurfaceLayout(PHPCodeOracle_ffi_type_label(arg))

C7_Witness ==
    /\ Returned("header_ffi_type_name")
    /\ arg = <<"Reference", <<"Reference", <<"Callback", <<"f", "o", "o", "_", "b", "a", "r">> >> >> >>
    /\ HeaderLayout(ret.val) =
           <<"pointer_to", <<"pointer_to",
               <<"callback", <<"U", "n", "i", "f", "f", "i", "F", "o", "o", "B", "a", "r">> >> >> >>

\* C8 (amended): arg_name returns the lower-camel-case form c of the
\* identifier, wrapped in grave accents exactly when c is in the
\* argument-position set (inout, var, let); a word of the general set that
\* is outside the argument-position set is returned unescaped.
C8_ArgNameEscapesArgKeywordsOnly ==
    Returned("arg_name") =>
        LET c == to_lower_camel_case(arg)
        IN /\ ret.kind = "ok"
           /\ ret.val = IF c \in ARG_KEYWORDS THEN Escaped(c) ELSE c
           /\ IsEscaped(ret.val) <=> c \in ARG_KEYWORDS

C8_Witness ==
    /\ Returned("arg_name")
    /\ to_lower_camel_case(arg) \in KEYWORDS \ ARG_KEYWORDS
    /\ ret.val = to_lower_camel_case(arg)

\* C8 (as the specification states it): at argument position membership of
\* the case-converted form in either set, the general one or the
\* argument-position one, is enough for the identifier to be escaped.
C8_Original ==
    Returned("arg_name") =>
        LET c == to_lower_camel_case(arg)
        IN (c \in KEYWORDS \/ c \in ARG_KEYWORDS) => IsEscaped(ret.val)

EmitCount(n) == Cardinality({i \in 1..Len(emitted) : emitted[i] = n})

\* C9: during one render every helper name that was requested, however
\* often, has been emitted exactly once, and a name never requested has not
\* been emitted; the set holds exactly the requested names.
C9_EachHelperEmittedOnce ==
    DOMAIN requested = HelperNames =>
        \A n \in HelperNames :
            /\ EmitCount(n) = IF requested[n] > 0 THEN 1 ELSE 0
            /\ n \in include_once_names <=> requested[n] > 0

C9_Witness ==
    /\ DOMAIN requested = HelperNames
    /\ requested["FfiConverterSequenceTypePoint"] >= 2
    /\ EmitCount("FfiConverterSequenceTypePoint") = 1

\* C10: a file is written for a component only after generate_bindings
\* succeeded for it; a component whose generation fails has no file, and
\* write_bindings does not return Ok once it has reached such a component.
C10_WriteOnlyAfterGenerate ==
    /\ \A f \in files : f.by \in generated /\ components[f.by].rendering = "ok"
    /\ \A i \in 1..Len(components) :
           components[i].rendering # "ok" =>
               /\ \A f \in files : f.by # i
               /\ wb_result.kind # "ok"

C10_Witness ==
    /\ wb_pc = "done"
    /\ Len(components) = 2
    /\ idx = 2
    /\ components[2].rendering = "render_err"
    /\ wb_result.kind = "err"
    /\ \E f \in files : f.by = 1 /\ f.content = "library"
    /\ \A f \in files : f.by # 2

\* a step of the generator after which update_component_configs has run
C11_StepOk ==
    /\ updated' =>
           \A i \in 1..Len(components') : is_some(components'[i].module_name)
    /\ (~updated /\ updated') =>
           /\ Len(components') = Len(components)
           /\ \A i \in 1..Len(components) :
                  /\ components'[i].namespace = components[i].namespace
                  /\ components'[i].module_name =
                         IF is_some(components[i].module_name)
                         THEN components[i].module_name
                         ELSE Some(components[i].namespace)
    /\ updated => (updated' /\ components' = components)
    /\ updated' =>
           /\ \A f \in files' \ files :
                  f.path = <<unwrap(components'[f.by].module_name), ".php">>
           /\ ~(/\ wb_result'.kind = "panic"
                /\ wb_result'.val =
                       <<"module name should have been set in update_component_configs">>)

\* C11: once update_component_configs has run every component has a module
\* name, the configured one where one was given (it is never overwritten,
\* then or later) and the namespace otherwise; every file write_bindings
\* then writes is named <module_name>.php after its component, and
\* Config::module_name() does not panic.
C11_ModuleNameSetBeforeWrite == [][C11_StepOk]_vars

C11_Witness ==
    /\ updated
    /\ wb_pc = "done"
    /\ wb_result.kind = "ok"
    /\ Len(components) = 2
    /\ \E f \in files : f.by = 1 /\ f.path = <<"b", ".php">>
    /\ \E f \in files : f.by = 2 /\ f.path = <<"m", ".php">> /\ components[2].namespace = "a"

====
